---- MODULE Spec2Model ----
(***************************************************************************)
(* Invoice settlement program (src/src/lib.rs): an administrator creates   *)
(* invoice records in program-owned accounts, any signer pays them.        *)
(* The ledger is a map from account addresses to (owner, lamports, data);  *)
(* every instruction runs to completion and is rolled back when it fails.  *)
(***************************************************************************)
EXTENDS Integers, Sequences, FiniteSets, TLC

\* ------------------------------------------------------------------ bounds
MaxId == 1            \* invoice ids are 1..MaxId
MaxAmount == 1        \* invoice amounts are 1..MaxAmount
AdminFunds == 2       \* lamports the administrator wallet starts with
PayerFunds == 2       \* lamports the payer wallet starts with

\* ------------------------------------------------------------- identities
AdminKey == 1         \* ADMIN_ACCOUNT_ID
PayerKey == 2         \* a wallet that is not the administrator
DestKey == 3          \* a payee wallet
KeypairKey == 50      \* a fresh address whose holder can sign
PdaBase == 10         \* derived addresses are PdaBase + id: no signing key
SystemProgramId == 100
FakeProgramId == 101  \* any program that is not the system program
RentSysvarId == 102
ThisProgramId == 103  \* program_id handed to process_instruction
OtherProgramId == 104 \* some other program, owner of the accounts below
ForeignPaidKey == 60   \* its account holding the bytes of a paid Invoice
ForeignUnpaidKey == 61 \* its account holding the bytes of an unpaid Invoice
CorruptKey == 62       \* its account holding bytes that are no Invoice

Ids == 1..MaxId
Amounts == 1..MaxAmount

\* Pubkey is [u8; 32]; an address a is the key a,0,...,0
Pubkey(a) == [i \in 1..32 |-> IF i = 1 THEN a ELSE 0]
\* Pubkey::to_string is base58, injective on 32-byte keys
PubkeyToString(k) == <<"base58", k>>

\* ------------------------------------------------------------------ codec
RECURSIVE to_le_bytes(_, _)
to_le_bytes(n, k) == IF k = 0 THEN <<>> ELSE <<n % 256>> \o to_le_bytes(n \div 256, k - 1)

RECURSIVE from_le_bytes(_)
from_le_bytes(b) == IF b = <<>> THEN 0 ELSE Head(b) + 256 * from_le_bytes(Tail(b))

RECURSIVE Reverse(_)
Reverse(s) == IF s = <<>> THEN <<>> ELSE Reverse(Tail(s)) \o <<Head(s)>>

\* u128::to_be_bytes
to_be_bytes(n) == Reverse(to_le_bytes(n, 16))

\* borsh: u128 LE, u64 LE, bool as one byte, [u8; 32] verbatim
InvoiceSerialize(inv) ==
    to_le_bytes(inv.id, 16) \o to_le_bytes(inv.amount, 8)
        \o <<IF inv.paid THEN 1 ELSE 0>> \o inv.destination

\* a size taken from the struct's in-memory layout, padded to its alignment
object_length_padded(inv) == Len(InvoiceSerialize(inv)) + 7

\* borsh::object_length
object_length(inv) == Len(InvoiceSerialize(inv))

\* Invoice::try_from_slice: every field must be present, the bool byte must
\* be 0 or 1, and no byte may be left over
InvoiceTryFromSlice(b) ==
    IF Len(b) # 57 \/ b[25] \notin {0, 1}
    THEN [ok |-> FALSE]
    ELSE [ok |-> TRUE,
          value |-> [id |-> from_le_bytes(SubSeq(b, 1, 16)),
                     amount |-> from_le_bytes(SubSeq(b, 17, 24)),
                     paid |-> (b[25] = 1),
                     destination |-> SubSeq(b, 26, 57)]]

\* a write that lands in a copy and never reaches the account
WriteAll_dropped(buf, bytes) == [ok |-> TRUE, buf |-> buf]

\* io::Write for &mut [u8]: overwrite the front of the buffer, fail when
\* the buffer is too short
WriteAll(buf, bytes) ==
    IF Len(bytes) > Len(buf)
    THEN [ok |-> FALSE, buf |-> buf]
    ELSE [ok |-> TRUE, buf |-> bytes \o SubSeq(buf, Len(bytes) + 1, Len(buf))]

\* borsh for enum InstructionData: one discriminant byte, then the variant's
\* fields
InstructionDataSerialize(op, inv) ==
    IF op = "PayInvoice" THEN <<0>> ELSE <<1>> \o InvoiceSerialize(inv)

\* a decoder that reads the variant and ignores what follows it
InstructionDataDeserialize_lax(b) ==
    IF Len(b) = 0 THEN [ok |-> FALSE]
    ELSE IF b[1] = 0 THEN [ok |-> TRUE, op |-> "PayInvoice"]
    ELSE IF b[1] = 1 /\ Len(b) >= 58 /\ b[26] \in {0, 1}
    THEN [ok |-> TRUE, op |-> "CreateInvoice",
          invoice |-> InvoiceTryFromSlice(SubSeq(b, 2, 58)).value]
    ELSE [ok |-> FALSE]

\* InstructionData::try_from_slice: discriminant 0 or 1, the Invoice of
\* variant 1 complete and valid, and no byte left over
InstructionDataTryFromSlice(b) ==
    IF Len(b) = 0 THEN [ok |-> FALSE]
    ELSE IF b[1] = 0
    THEN (IF Len(b) = 1 THEN [ok |-> TRUE, op |-> "PayInvoice"] ELSE [ok |-> FALSE])
    ELSE IF b[1] = 1
    THEN (IF InvoiceTryFromSlice(Tail(b)).ok
          THEN [ok |-> TRUE, op |-> "CreateInvoice",
                invoice |-> InvoiceTryFromSlice(Tail(b)).value]
          ELSE [ok |-> FALSE])
    ELSE [ok |-> FALSE]

\* ----------------------------------------------------- address derivation
\* Pubkey::find_program_address(&[&id], program_id) -> (address, bump)
find_program_address(seeds, program) ==
    [address |-> PdaBase + from_le_bytes(Reverse(seeds[1])), bump |-> 255]

\* the address the runtime accepts as signed by signer_seeds = [id, [bump]]
create_program_address(seeds, program) ==
    PdaBase + from_le_bytes(Reverse(seeds[1]))

\* derive(id, program_identity) of the specification
Derive(id) == find_program_address(<<to_be_bytes(id)>>, ThisProgramId).address

PdaKeys == {Derive(i) : i \in Ids}
\* accounts this program did not create
ForeignKeys == {ForeignPaidKey, ForeignUnpaidKey, CorruptKey}
Keys == {AdminKey, PayerKey, DestKey, KeypairKey} \cup PdaKeys \cup ForeignKeys

\* --------------------------------------------------------------- results
Ok == [err |-> "Ok", msg |-> "", origin |-> "program"]
Err(e, m) == [err |-> e, msg |-> m, origin |-> "program"]
\* an error the handler propagates with `?`
Propagated(e, from) == [err |-> e, msg |-> "", origin |-> from]

\* the error kinds of the specification, as the program reports them
MissingSignature(r) == r.err = "MissingRequiredSignature" /\ r.origin = "program"
Unauthorized(r) == r = Err("InvalidArgument", "access denied. Invalid admin account")
InvalidRecord(r) == r = Err("InvalidAccountData", "pda is empty")
InvalidArgument(r) ==
    r \in {Err("InvalidArgument", "destination wallet is invalid"),
           Err("InvalidArgument", "unknown program was passed instead of system program")}
CorruptRecord(r) == r = Propagated("BorshIoError", "codec")
MalformedInstruction(r) == r = Propagated("BorshIoError", "instruction")
LedgerFailure(r) == r.origin = "cpi"

\* ------------------------------------------------- system program (ledger)
\* system_instruction::transfer: the source must have signed, be a
\* system-owned account without data, and hold the lamports
system_transfer(accts, from, to, lamports, from_signer) ==
    IF ~from_signer
    THEN [ok |-> FALSE, err |-> "MissingRequiredSignature", accts |-> accts]
    ELSE IF accts[from].data # <<>>
    THEN [ok |-> FALSE, err |-> "InvalidArgument", accts |-> accts]
    ELSE IF lamports > accts[from].lamports
    THEN [ok |-> FALSE, err |-> "Custom(1)", accts |-> accts]
    ELSE IF accts[from].owner # SystemProgramId
    THEN [ok |-> FALSE, err |-> "ExternalAccountLamportSpend", accts |-> accts]
    ELSE LET debited == [accts EXCEPT ![from].lamports = @ - lamports]
         IN [ok |-> TRUE, err |-> "Ok",
             accts |-> [debited EXCEPT ![to].lamports = @ + lamports]]

\* system_instruction::create_account: both accounts must have signed, the
\* new address must be unused (no lamports, no data, system-owned); it is
\* allocated zeroed, assigned to the owner and funded by `from`
system_create_account(accts, from, to, lamports, space, owner, from_signer, to_signer) ==
    IF ~from_signer \/ ~to_signer
    THEN [ok |-> FALSE, err |-> "MissingRequiredSignature", accts |-> accts]
    ELSE IF accts[to].lamports > 0 \/ accts[to].data # <<>>
            \/ accts[to].owner # SystemProgramId
    THEN [ok |-> FALSE, err |-> "Custom(0)", accts |-> accts]
    ELSE LET made == [accts EXCEPT ![to].data = [i \in 1..space |-> 0],
                                   ![to].owner = owner]
             tr == system_transfer(made, from, to, lamports, from_signer)
         IN IF tr.ok THEN tr ELSE [tr EXCEPT !.accts = accts]

\* Rent::minimum_balance(space), in model lamports
minimum_balance(space) == 1

\* what a handler leaves behind: its result, the accounts as it last saw
\* them, and the sub-invocations and record writes it performed
Outcome(res, accts, events) == [result |-> res, accts |-> accts, events |-> events]

TransferEvent(from, to, lamports, ok) ==
    [ev |-> "transfer", from |-> from, to |-> to, lamports |-> lamports, ok |-> ok]
CreateEvent(from, to, lamports, ok) ==
    [ev |-> "create_account", from |-> from, to |-> to, lamports |-> lamports, ok |-> ok]
WriteEvent(key) ==
    [ev |-> "write", from |-> key, to |-> key, lamports |-> 0, ok |-> TRUE]

\* ---------------------------------------------------------------- handlers
ADMIN_ACCOUNT_ID == PubkeyToString(Pubkey(AdminKey))

NoInvoice == [id |-> 0, amount |-> 0, paid |-> FALSE, destination |-> Pubkey(0)]

\* an emptiness check that never fires
data_is_empty_never(acct) == FALSE

\* pda.data_is_empty()
data_is_empty(acct) == Len(acct.data) = 0

\* a destination check that accepts any account
destination_matches_any(key, invoice) == TRUE

\* destination.key.to_string() == Pubkey::new_from_array(invoice.destination).to_string()
destination_matches(key, invoice) ==
    PubkeyToString(Pubkey(key)) = PubkeyToString(invoice.destination)

\* the flag is never set
mark_paid_forgotten(invoice) == invoice

\* a settlement that flips the flag
mark_paid_toggle(invoice) == [invoice EXCEPT !.paid = ~@]

\* settling also clears the amount due
mark_paid_and_clear(invoice) == [invoice EXCEPT !.paid = TRUE, !.amount = 0]

\* a settled invoice has nothing left to transfer
transfer_amount_twice(invoice) == 2 * invoice.amount

transfer_amount_once(invoice) == IF invoice.paid THEN 0 ELSE invoice.amount

\* the lamports of system_instruction::transfer(sender, destination, invoice.amount)
transfer_amount(invoice) == invoice.amount

\* invoice.paid = true
mark_paid(invoice) == [invoice EXCEPT !.paid = TRUE]

\* an administrator check that accepts any account
is_admin_any(key) == TRUE

\* admin.key.to_string() == ADMIN_ACCOUNT_ID.to_string()
is_admin(key) == PubkeyToString(Pubkey(key)) = ADMIN_ACCOUNT_ID

\* the checks with the system program check moved in front of the others
pay_invoice_checks_capability_first(accts, c) ==
    IF c.system_program # SystemProgramId
    THEN Err("InvalidArgument", "unknown program was passed instead of system program")
    ELSE IF ~c.is_signer
    THEN Err("MissingRequiredSignature", "sender isn't a transaction signer")
    ELSE IF data_is_empty(accts[c.pda])
    THEN Err("InvalidAccountData", "pda is empty")
    ELSE LET dec == InvoiceTryFromSlice(accts[c.pda].data) IN
    IF ~dec.ok
    THEN Propagated("BorshIoError", "codec")
    ELSE IF ~destination_matches(c.destination, dec.value)
    THEN Err("InvalidArgument", "destination wallet is invalid")
    ELSE Ok

\* the checks of pay_invoice, in the order of the code: signer, empty
\* buffer, system program, decode, destination
pay_invoice_checks(accts, c) ==
    IF ~c.is_signer
    THEN Err("MissingRequiredSignature", "sender isn't a transaction signer")
    ELSE IF data_is_empty(accts[c.pda])
    THEN Err("InvalidAccountData", "pda is empty")
    ELSE IF c.system_program # SystemProgramId
    THEN Err("InvalidArgument", "unknown program was passed instead of system program")
    ELSE LET dec == InvoiceTryFromSlice(accts[c.pda].data) IN
    IF ~dec.ok
    THEN Propagated("BorshIoError", "codec")
    ELSE IF ~destination_matches(c.destination, dec.value)
    THEN Err("InvalidArgument", "destination wallet is invalid")
    ELSE Ok

\* the transfer's result is dropped and the record is written regardless
settle_ignoring_failure(accts, c, invoice) ==
    LET lamports == transfer_amount(invoice)
        tr == system_transfer(accts, c.first, c.destination, lamports, c.is_signer)
        ev == TransferEvent(c.first, c.destination, lamports, tr.ok)
        w == WriteAll(tr.accts[c.pda].data, InvoiceSerialize(mark_paid(invoice)))
    IN Outcome(Ok, [tr.accts EXCEPT ![c.pda].data = w.buf], <<ev, WriteEvent(c.pda)>>)

\* the rest of pay_invoice: transfer, then mark paid and rewrite the record
settle(accts, c, invoice) ==
    LET lamports == transfer_amount(invoice)
        tr == system_transfer(accts, c.first, c.destination, lamports, c.is_signer)
        ev == TransferEvent(c.first, c.destination, lamports, tr.ok)
    IN
    IF ~tr.ok
    THEN Outcome(Propagated(tr.err, "cpi"), accts, <<ev>>)
    ELSE LET paid == mark_paid(invoice)
             w == WriteAll(tr.accts[c.pda].data, InvoiceSerialize(paid))
         IN
    IF ~w.ok
    THEN Outcome(Propagated("BorshIoError", "codec"), tr.accts, <<ev>>)
    ELSE Outcome(Ok, [tr.accts EXCEPT ![c.pda].data = w.buf],
                 <<ev, WriteEvent(c.pda)>>)

\* pay_invoice(accounts): accounts are sender, pda, destination, system_program
pay_invoice(accts, c) ==
    IF c.naccounts < 4
    THEN Outcome(Propagated("NotEnoughAccountKeys", "accounts"), accts, <<>>)
    ELSE IF pay_invoice_checks(accts, c) # Ok
    THEN Outcome(pay_invoice_checks(accts, c), accts, <<>>)
    ELSE settle(accts, c, InvoiceTryFromSlice(accts[c.pda].data).value)

\* the two checks in the other order
authorize_signer_first(c) ==
    IF ~c.is_signer
    THEN Err("MissingRequiredSignature", "access denied. Admin isn't a transaction signer")
    ELSE IF ~is_admin(c.first)
    THEN Err("InvalidArgument", "access denied. Invalid admin account")
    ELSE Ok

\* the checks of create_invoice: administrator identity, then signature
authorize(c) ==
    IF ~is_admin(c.first)
    THEN Err("InvalidArgument", "access denied. Invalid admin account")
    ELSE IF ~c.is_signer
    THEN Err("MissingRequiredSignature", "access denied. Admin isn't a transaction signer")
    ELSE Ok

\* create_invoice(program_id, accounts, invoice): accounts are admin, pda,
\* system_program, sysvar_rent_program
create_invoice(program_id, accts, c, invoice) ==
    IF c.naccounts < 4
    THEN Outcome(Propagated("NotEnoughAccountKeys", "accounts"), accts, <<>>)
    ELSE IF authorize(c) # Ok
    THEN Outcome(authorize(c), accts, <<>>)
    ELSE LET id == to_be_bytes(invoice.id)
             seed == find_program_address(<<id>>, program_id).bump
             signer_seeds == <<id, <<seed>>>>
             space == object_length(invoice)
         IN
    IF c.sysvar_rent_program # RentSysvarId
    THEN Outcome(Propagated("InvalidArgument", "rent"), accts, <<>>)
    ELSE IF c.system_program # SystemProgramId
    THEN Outcome(Propagated("MissingAccount", "cpi"), accts, <<>>)
    ELSE LET lamports == minimum_balance(space)
             pda_signed == c.pda_is_signer
                            \/ c.pda = create_program_address(signer_seeds, program_id)
             cr == system_create_account(accts, c.first, c.pda, lamports, space,
                                         program_id, c.is_signer, pda_signed)
             ev == CreateEvent(c.first, c.pda, lamports, cr.ok)
         IN
    IF ~cr.ok
    THEN Outcome(Propagated(cr.err, "cpi"), accts, <<ev>>)
    ELSE LET w == WriteAll(cr.accts[c.pda].data, InvoiceSerialize(invoice)) IN
    IF ~w.ok
    THEN Outcome(Propagated("BorshIoError", "codec"), cr.accts, <<ev>>)
    ELSE Outcome(Ok, [cr.accts EXCEPT ![c.pda].data = w.buf],
                 <<ev, WriteEvent(c.pda)>>)

\* process_instruction, and the ledger around it: a failed instruction
\* leaves no trace, and a program may not change the data of an account it
\* does not own
process_instruction(program_id, accts, c) ==
    LET ix == InstructionDataTryFromSlice(c.instruction_data)
        out == IF ~ix.ok
               THEN Outcome(Propagated("BorshIoError", "instruction"), accts, <<>>)
               ELSE IF ix.op = "PayInvoice"
               THEN pay_invoice(accts, c)
               ELSE create_invoice(program_id, accts, c, ix.invoice)
        foreign == \E k \in DOMAIN accts :
                       /\ out.accts[k].data # accts[k].data
                       /\ accts[k].owner # program_id
                       /\ out.accts[k].owner # program_id
    IN IF out.result.err = "Ok" /\ foreign
       THEN Outcome(Propagated("ExternalAccountDataModified", "runtime"),
                    accts, out.events)
       ELSE IF out.result.err # "Ok"
       THEN Outcome(out.result, accts, out.events)
       ELSE out

\* ------------------------------------------------------------------- state
VARIABLES
    accounts,   \* the ledger: address -> [owner, lamports, data]
    pre,        \* the ledger as the last instruction found it
    call,       \* the last instruction and the accounts passed to it
    result,     \* what the last instruction returned
    events,     \* sub-invocations and record writes of the last instruction
    payments    \* history: successful PayInvoice calls per storage address

vars == <<accounts, pre, call, result, events, payments>>

Wallet(lamports) == [owner |-> SystemProgramId, lamports |-> lamports, data |-> <<>>]

\* addresses that may be passed as invoice storage
StorageKeys == PdaKeys \cup {KeypairKey}
\* addresses that may be passed to pay_invoice as the invoice storage
PaymentStorageKeys == StorageKeys \cup ForeignKeys
\* addresses an invoice may name as its payee
PayeeKeys == {DestKey}
\* accounts that may be passed as the payer
SenderKeys == {PayerKey, KeypairKey}
\* accounts that may be passed as the destination of a payment
DestinationKeys == PayeeKeys \cup {PayerKey}

SampleInvoice == [id |-> 1, amount |-> 1, paid |-> FALSE,
                  destination |-> Pubkey(DestKey)]

Invoices == [id : Ids, amount : Amounts, paid : BOOLEAN,
             destination : {Pubkey(k) : k \in PayeeKeys}]

NoCall == [op |-> "none", first |-> 0, is_signer |-> FALSE, pda |-> 0,
           pda_is_signer |-> FALSE, destination |-> 0, system_program |-> 0,
           sysvar_rent_program |-> 0, naccounts |-> 0, invoice |-> NoInvoice,
           instruction_data |-> <<>>]

\* Accounts are passed in the documented positions with the documented
\* writable flags; which of them signed the transaction is the caller's choice.
\* A derived address has no private key, so it never signs a transaction.
CanSign(k) == k \notin PdaKeys

PayCalls ==
    {[NoCall EXCEPT !.op = "PayInvoice", !.first = s, !.is_signer = sg, !.pda = p,
                    !.destination = d, !.system_program = sp, !.naccounts = 4,
                    !.instruction_data = InstructionDataSerialize("PayInvoice", NoInvoice)] :
        s \in SenderKeys, sg \in BOOLEAN, p \in PaymentStorageKeys,
        d \in DestinationKeys,
        sp \in {SystemProgramId, FakeProgramId}}
    \cup {[NoCall EXCEPT !.op = "PayInvoice", !.naccounts = 3,
                         !.instruction_data = InstructionDataSerialize("PayInvoice", NoInvoice)]}

CreateCalls ==
    {c \in {[NoCall EXCEPT !.op = "CreateInvoice", !.first = a, !.is_signer = sg,
                           !.pda = p, !.pda_is_signer = psg, !.system_program = sp,
                           !.sysvar_rent_program = rp, !.naccounts = 4,
                           !.invoice = inv,
                           !.instruction_data =
                               InstructionDataSerialize("CreateInvoice", inv)] :
                a \in {AdminKey, PayerKey}, sg \in BOOLEAN, p \in StorageKeys,
                psg \in BOOLEAN, sp \in {SystemProgramId, FakeProgramId},
                rp \in {RentSysvarId, FakeProgramId}, inv \in Invoices} :
        c.pda_is_signer => CanSign(c.pda)}
    \cup {[NoCall EXCEPT !.op = "CreateInvoice", !.naccounts = 3,
                         !.invoice = SampleInvoice,
                         !.instruction_data =
                             InstructionDataSerialize("CreateInvoice", SampleInvoice)]}

\* payloads that are neither <<0>> nor <<1>> followed by an encoded Invoice:
\* empty, unknown discriminant, trailing bytes, truncated, invalid bool
MalformedPayloads ==
    LET pay == InstructionDataSerialize("PayInvoice", NoInvoice)
        create == InstructionDataSerialize("CreateInvoice", SampleInvoice)
    IN {<<>>, <<2>>, pay \o <<0>>, SubSeq(create, 1, 1),
        SubSeq(create, 1, Len(create) - 1), create \o <<0>>,
        [create EXCEPT ![26] = 2]}

\* malformed payloads arrive with the accounts of an otherwise valid call
MalformedCalls ==
    {[NoCall EXCEPT !.op = "Malformed", !.first = PayerKey, !.is_signer = TRUE,
                    !.pda = p, !.destination = DestKey,
                    !.system_program = SystemProgramId, !.naccounts = 4,
                    !.instruction_data = d] :
        p \in StorageKeys, d \in MalformedPayloads}
    \cup
    {[NoCall EXCEPT !.op = "Malformed", !.first = AdminKey, !.is_signer = TRUE,
                    !.pda = p, !.pda_is_signer = CanSign(p),
                    !.system_program = SystemProgramId,
                    !.sysvar_rent_program = RentSysvarId, !.naccounts = 4,
                    !.instruction_data = d] :
        p \in StorageKeys, d \in MalformedPayloads}

\* an account of another program: rent-funded, holding `data`
Foreign(data) == [owner |-> OtherProgramId, lamports |-> 1, data |-> data]

Init ==
    /\ accounts = [k \in Keys |->
                      IF k = AdminKey THEN Wallet(AdminFunds)
                      ELSE IF k = PayerKey THEN Wallet(PayerFunds)
                      ELSE IF k = ForeignPaidKey
                      THEN Foreign(InvoiceSerialize([SampleInvoice EXCEPT !.paid = TRUE]))
                      ELSE IF k = ForeignUnpaidKey
                      THEN Foreign(InvoiceSerialize(SampleInvoice))
                      ELSE IF k = CorruptKey
                      THEN Foreign([InvoiceSerialize(SampleInvoice) EXCEPT ![25] = 2])
                      ELSE Wallet(0)]
    /\ pre = accounts
    /\ call = NoCall
    /\ result = Ok
    /\ events = <<>>
    /\ payments = [k \in Keys |-> 0]

\* the ledger runs one instruction at a time, to completion, and commits
\* what process_instruction leaves
Invoke(c) == process_instruction(ThisProgramId, accounts, c)

PayInvoice ==
    \E c \in PayCalls :
        /\ call = NoCall
        /\ pre' = accounts
        /\ call' = c
        /\ result' = Invoke(c).result
        /\ events' = Invoke(c).events
        /\ accounts' = Invoke(c).accts
        /\ payments' = IF Invoke(c).result = Ok
                       THEN [payments EXCEPT ![c.pda] = @ + 1]
                       ELSE payments

CreateInvoice ==
    \E c \in CreateCalls :
        /\ call = NoCall
        /\ pre' = accounts
        /\ call' = c
        /\ result' = Invoke(c).result
        /\ events' = Invoke(c).events
        /\ accounts' = Invoke(c).accts
        /\ UNCHANGED payments

\* an instruction whose payload does not decode
BadInstruction ==
    \E c \in MalformedCalls :
        /\ call = NoCall
        /\ pre' = accounts
        /\ call' = c
        /\ result' = Invoke(c).result
        /\ events' = Invoke(c).events
        /\ accounts' = Invoke(c).accts
        /\ UNCHANGED payments

\* the instruction is over: the ledger keeps the accounts, the caller has
\* the result, and the next instruction starts from the committed ledger
Return ==
    /\ call # NoCall
    /\ call' = NoCall
    /\ pre' = accounts
    /\ result' = Ok
    /\ events' = <<>>
    /\ UNCHANGED <<accounts, payments>>

Next == PayInvoice \/ CreateInvoice \/ BadInstruction \/ Return

Spec == Init /\ [][Next]_vars

\* ------------------------------------------------------------- vocabulary
Stored(accts, k) == InvoiceTryFromSlice(accts[k].data)
\* an invoice record: a program-owned account whose data decodes
IsRecord(accts, k) == accts[k].owner = ThisProgramId /\ Stored(accts, k).ok
\* a payer the transfer primitive can debit: system-owned, without data
IsWallet(accts, k) == accts[k].owner = SystemProgramId /\ accts[k].data = <<>>

Paying == call.op = "PayInvoice" /\ call.naccounts = 4
Creating == call.op = "CreateInvoice" /\ call.naccounts = 4
Delta(k) == accounts[k].lamports - pre[k].lamports
\* `amount` went from `from` to `to`, and no other balance moved
Moved(from, to, amount) ==
    \A k \in Keys : Delta(k) = (IF k = to THEN amount ELSE 0)
                               - (IF k = from THEN amount ELSE 0)

\* a PayInvoice call with valid inputs against the record at call.pda: the
\* payer signs and is a wallet holding the amount, the transfer capability
\* is the system program, the destination is the recorded one
ValidPayment ==
    /\ Paying
    /\ IsRecord(pre, call.pda)
    /\ call.is_signer
    /\ IsWallet(pre, call.first)
    /\ pre[call.first].lamports >= Stored(pre, call.pda).value.amount
    /\ call.system_program = SystemProgramId
    /\ Pubkey(call.destination) = Stored(pre, call.pda).value.destination

\* C1 Settlement: a valid PayInvoice call against an unpaid record succeeds,
\* moves exactly invoice.amount from the payer to the destination, and
\* leaves the record as it was except that paid is true.
C1_Settlement ==
    (ValidPayment /\ ~Stored(pre, call.pda).value.paid) =>
        LET old == Stored(pre, call.pda).value IN
        /\ result = Ok
        /\ Moved(call.first, call.destination, old.amount)
        /\ Stored(accounts, call.pda).ok
        /\ Stored(accounts, call.pda).value = [old EXCEPT !.paid = TRUE]
        /\ \A k \in Keys \ {call.pda} : accounts[k].data = pre[k].data
        /\ \A k \in Keys : accounts[k].owner = pre[k].owner

C1_Witness ==
    /\ ValidPayment
    /\ ~Stored(pre, call.pda).value.paid
    /\ Stored(accounts, call.pda).value.paid
    /\ Delta(DestKey) = Stored(pre, call.pda).value.amount

\* C2 Double pay: a valid PayInvoice call against a record that is already
\* paid succeeds and transfers invoice.amount again; the record stays
\* Created(paid=true), no guard on paid rejects the call.
C2_DoublePay ==
    (ValidPayment /\ Stored(pre, call.pda).value.paid) =>
        /\ result = Ok
        /\ Moved(call.first, call.destination, Stored(pre, call.pda).value.amount)
        /\ \E i \in 1..Len(events) : events[i].ev = "transfer" /\ events[i].ok
        /\ accounts[call.pda].data = pre[call.pda].data
        /\ Stored(accounts, call.pda).value.paid

C2_Witness ==
    /\ ValidPayment
    /\ Stored(pre, call.pda).value.paid
    /\ payments[call.pda] = 2
    /\ accounts[DestKey].lamports = 2 * Stored(pre, call.pda).value.amount

\* C3 Every successful CreateInvoice leaves the new record with paid=false,
\* whatever the payload.
C3_CreatedUnpaid ==
    (Creating /\ result = Ok) =>
        /\ Stored(accounts, call.pda).ok
        /\ ~Stored(accounts, call.pda).value.paid

\* C4 Authorization: CreateInvoice with a first account that is not the
\* administrator fails with Unauthorized, with the administrator not
\* signing it fails with MissingSignature; either way nothing is created,
\* nothing is written and no sub-invocation is issued.
C4_Authorization ==
    /\ (Creating /\ call.first # AdminKey) =>
           Unauthorized(result) /\ accounts = pre /\ events = <<>>
    /\ (Creating /\ call.first = AdminKey /\ ~call.is_signer) =>
           MissingSignature(result) /\ accounts = pre /\ events = <<>>

\* a non-administrator signs a call that is valid in every other respect
C4_Witness ==
    /\ Creating
    /\ call.first = PayerKey
    /\ call.is_signer
    /\ call.pda = Derive(call.invoice.id)
    /\ pre[call.pda] = Wallet(0)
    /\ call.system_program = SystemProgramId
    /\ call.sysvar_rent_program = RentSysvarId
    /\ Unauthorized(result)

\* C5 Every invoice record is stored at derive(invoice.id, program): no
\* program-owned account holds a record at any other address.
C5_DerivedAddress ==
    \A k \in Keys :
        (accounts[k].owner = ThisProgramId /\ accounts[k].data # <<>>) =>
            /\ Stored(accounts, k).ok
            /\ k = Derive(Stored(accounts, k).value.id)

\* C6 Destination integrity: a PayInvoice call against a stored record whose
\* destination account differs from the recorded destination fails, moves
\* no value and leaves the record as it was; the error is InvalidArgument
\* once the payer has signed.
C6_DestinationIntegrity ==
    (/\ Paying
     /\ Stored(pre, call.pda).ok
     /\ Pubkey(call.destination) # Stored(pre, call.pda).value.destination) =>
        /\ result # Ok
        /\ call.is_signer => InvalidArgument(result)
        /\ accounts = pre
        /\ events = <<>>

\* a signing wallet with funds names the wrong destination for a record
C6_Witness ==
    /\ Paying
    /\ IsRecord(pre, call.pda)
    /\ call.is_signer
    /\ IsWallet(pre, call.first)
    /\ pre[call.first].lamports >= Stored(pre, call.pda).value.amount
    /\ call.system_program = SystemProgramId
    /\ Pubkey(call.destination) # Stored(pre, call.pda).value.destination
    /\ result = Err("InvalidArgument", "destination wallet is invalid")

\* C7 Creation collision: CreateInvoice by the signing administrator for an
\* id whose derived address already holds a record fails with LedgerFailure
\* and changes nothing.
C7_CreationCollision ==
    (/\ Creating
     /\ call.first = AdminKey
     /\ call.is_signer
     /\ call.system_program = SystemProgramId
     /\ call.sysvar_rent_program = RentSysvarId
     /\ IsRecord(pre, Derive(call.invoice.id))) =>
        LedgerFailure(result) /\ accounts = pre

\* C8 Missing record: PayInvoice by a signing payer against a storage
\* account with an empty buffer fails with InvalidRecord and transfers
\* nothing, whatever destination and transfer capability are passed.
C8_MissingRecord ==
    (Paying /\ call.is_signer /\ pre[call.pda].data = <<>>) =>
        InvalidRecord(result) /\ accounts = pre /\ events = <<>>

C8_Witness ==
    /\ Paying
    /\ call.is_signer
    /\ pre[call.pda].data = <<>>
    /\ call.system_program = FakeProgramId
    /\ call.destination = PayerKey
    /\ InvalidRecord(result)

\* C9 Frame: the id, amount and destination of an existing record never
\* change; PayInvoice changes at most the paid flag of the record it was
\* given, and value goes only to the destination read from storage.
C9_Frame ==
    /\ \A k \in Keys :
           IsRecord(pre, k) =>
               /\ IsRecord(accounts, k)
               /\ Stored(accounts, k).value.id = Stored(pre, k).value.id
               /\ Stored(accounts, k).value.amount = Stored(pre, k).value.amount
               /\ Stored(accounts, k).value.destination
                      = Stored(pre, k).value.destination
    /\ Paying =>
           /\ \A k \in Keys \ {call.pda} : accounts[k].data = pre[k].data
           /\ \A k \in Keys :
                  Delta(k) > 0 =>
                      /\ Stored(pre, call.pda).ok
                      /\ Pubkey(k) = Stored(pre, call.pda).value.destination

C9_Witness ==
    /\ Paying
    /\ result = Ok
    /\ IsRecord(pre, call.pda)
    /\ accounts[call.pda].data # pre[call.pda].data
    /\ Delta(call.destination) > 0

\* C10 Record size: the storage of every invoice is exactly 57 bytes
\* (16 + 8 + 1 + 32) from creation onward; CreateInvoice allocates exactly
\* that and PayInvoice rewrites it without changing the length.
C10_RecordSize ==
    /\ \A k \in Keys :
           accounts[k].owner = ThisProgramId => Len(accounts[k].data) = 16 + 8 + 1 + 32
    /\ (Creating /\ result = Ok) =>
           /\ Len(pre[call.pda].data) = 0
           /\ Len(accounts[call.pda].data) = 57
    /\ Paying => Len(accounts[call.pda].data) = Len(pre[call.pda].data)

\* a record that has been paid twice
C10_Witness ==
    /\ Paying
    /\ result = Ok
    /\ payments[call.pda] = 2
    /\ Len(accounts[call.pda].data) = 57

\* ------------------------------------------------------ claims C11 to C19
\* the payload is exactly PayInvoice (one byte 0) or CreateInvoice (byte 1
\* and the 57 bytes of an Invoice whose paid byte is 0 or 1)
WellFormedPayload(b) ==
    \/ b = <<0>>
    \/ Len(b) = 1 + 16 + 8 + 1 + 32 /\ b[1] = 1 /\ b[1 + 16 + 8 + 1] \in {0, 1}

\* C11 Strict decoding: an instruction payload that is not exactly a
\* PayInvoice or a CreateInvoice encoding fails with MalformedInstruction
\* before any handler runs: no account changes, no sub-invocation, no write.
C11_StrictDecoding ==
    (call # NoCall /\ ~WellFormedPayload(call.instruction_data)) =>
        /\ MalformedInstruction(result)
        /\ accounts = pre
        /\ events = <<>>

\* a PayInvoice payload with a trailing byte, sent with the accounts of a
\* payment that would settle an existing record
C11_Witness ==
    /\ call.op = "Malformed"
    /\ call.instruction_data = <<0, 0>>
    /\ IsRecord(pre, call.pda)
    /\ call.first = PayerKey
    /\ pre[PayerKey].lamports >= Stored(pre, call.pda).value.amount
    /\ MalformedInstruction(result)

\* C12 Lifecycle: a record that exists keeps existing through every
\* instruction, successful or not, and a record comes into existence only
\* in the storage account of a successful CreateInvoice whose first account
\* is the signing administrator.
C12_Lifecycle ==
    /\ \A k \in Keys :
           IsRecord(pre, k) =>
               /\ IsRecord(accounts, k)
               /\ accounts[k].lamports >= pre[k].lamports
    /\ \A k \in Keys :
           (~IsRecord(pre, k) /\ IsRecord(accounts, k)) =>
               /\ Creating
               /\ result = Ok
               /\ k = call.pda
               /\ call.first = AdminKey
               /\ call.is_signer

\* a record that a payment, failed or not, has just left in place
C12_Witness ==
    /\ Paying
    /\ IsRecord(pre, call.pda)
    /\ IsRecord(accounts, call.pda)
    /\ payments[call.pda] >= 1
    /\ result # Ok

\* C13 The paid flag of a record never goes from true to false, so it goes
\* from false to true at most once.
C13_PaidMonotonic ==
    \A k \in Keys :
        (IsRecord(pre, k) /\ Stored(pre, k).value.paid) =>
            (IsRecord(accounts, k) /\ Stored(accounts, k).value.paid)

\* a paid record is paid again and stays paid
C13_Witness ==
    /\ Paying
    /\ result = Ok
    /\ IsRecord(pre, call.pda)
    /\ Stored(pre, call.pda).value.paid
    /\ Stored(accounts, call.pda).value.paid
    /\ payments[call.pda] >= 2

\* C14 PayInvoice validation order: signer, non-empty buffer, system
\* program, decode, destination. The error is the one of the first check
\* that fails (MissingSignature, InvalidRecord, InvalidArgument,
\* CorruptRecord, InvalidArgument), and no transfer or write happens unless
\* all five pass.
C14_PayOrder ==
    Paying =>
        LET signer == call.is_signer
            nonempty == pre[call.pda].data # <<>>
            capability == call.system_program = SystemProgramId
            decodes == Stored(pre, call.pda).ok
            destination == /\ decodes
                           /\ Pubkey(call.destination)
                                  = Stored(pre, call.pda).value.destination
            passed == signer /\ nonempty /\ capability /\ decodes /\ destination
        IN
        /\ ~signer => MissingSignature(result)
        /\ (signer /\ ~nonempty) => InvalidRecord(result)
        /\ (signer /\ nonempty /\ ~capability) =>
               result = Err("InvalidArgument",
                            "unknown program was passed instead of system program")
        /\ (signer /\ nonempty /\ capability /\ ~decodes) => CorruptRecord(result)
        /\ (signer /\ nonempty /\ capability /\ decodes /\ ~destination) =>
               result = Err("InvalidArgument", "destination wallet is invalid")
        /\ ~passed => (events = <<>> /\ accounts = pre)
        /\ passed => (Len(events) >= 1 /\ events[1].ev = "transfer")

\* the capability is wrong and the buffer does not decode: the capability
\* check, which comes first, decides
C14_Witness ==
    /\ Paying
    /\ call.is_signer
    /\ call.pda = CorruptKey
    /\ call.system_program = FakeProgramId
    /\ call.destination = PayerKey
    /\ InvalidArgument(result)

\* C15 CreateInvoice validation order: the administrator check runs before
\* the signer check, so a first account that is neither gets Unauthorized;
\* no rent query and no account creation happens before both checks pass.
C15_CreateOrder ==
    Creating =>
        /\ (call.first # AdminKey /\ ~call.is_signer) =>
               (Unauthorized(result) /\ ~MissingSignature(result))
        /\ (call.first # AdminKey \/ ~call.is_signer) =>
               /\ result.origin = "program"
               /\ events = <<>>
               /\ accounts = pre
        /\ (events # <<>> \/ result.origin \in {"rent", "cpi"}) =>
               (call.first = AdminKey /\ call.is_signer)

\* neither administrator nor signer, and the rent account is wrong as well
C15_Witness ==
    /\ Creating
    /\ call.first = PayerKey
    /\ ~call.is_signer
    /\ call.sysvar_rent_program = FakeProgramId
    /\ Unauthorized(result)

\* C16 PayInvoice pays only on a record of this program: a call whose
\* storage account is not owned by the program never succeeds and never
\* moves value, whatever its bytes decode to.
C16_OwnedStorageOnly ==
    (Paying /\ pre[call.pda].owner # ThisProgramId) =>
        /\ result # Ok
        /\ \A k \in Keys : Delta(k) = 0

\* a PayInvoice call that passes the five checks with a payer wallet that
\* holds less than the amount
InsufficientPayment ==
    /\ Paying
    /\ IsRecord(pre, call.pda)
    /\ call.is_signer
    /\ IsWallet(pre, call.first)
    /\ pre[call.first].lamports < Stored(pre, call.pda).value.amount
    /\ call.system_program = SystemProgramId
    /\ Pubkey(call.destination) = Stored(pre, call.pda).value.destination

\* C17 The paid flag is written only after the transfer has succeeded: a
\* failed transfer (such as a payer short of the amount) fails the call with
\* the propagated LedgerFailure, moves no balance and leaves paid as it was.
C17_PaidAfterTransfer ==
    Paying =>
        /\ \A i \in 1..Len(events) :
               events[i].ev = "write" =>
                   \E j \in 1..(i - 1) : events[j].ev = "transfer" /\ events[j].ok
        /\ (\E i \in 1..Len(events) : events[i].ev = "transfer" /\ ~events[i].ok) =>
               /\ LedgerFailure(result)
               /\ accounts = pre
               /\ \A i \in 1..Len(events) : events[i].ev # "write"
        /\ InsufficientPayment =>
               /\ LedgerFailure(result)
               /\ \A k \in Keys : Delta(k) = 0
               /\ Stored(accounts, call.pda) = Stored(pre, call.pda)

\* an unpaid record, a payer without the funds
C17_Witness ==
    /\ InsufficientPayment
    /\ ~Stored(pre, call.pda).value.paid
    /\ ~Stored(accounts, call.pda).value.paid
    /\ result = Propagated("Custom(1)", "cpi")

\* the buffer create_account allocates
ZeroBuffer == [i \in 1..57 |-> 0]

\* C18 Between instructions a program-owned account always holds a fully
\* written record: the payload of the CreateInvoice that made it, up to the
\* paid flag, and never the zeroed buffer of a created but unwritten account.
C18_NoPartialRecord ==
    /\ \A k \in Keys :
           accounts[k].owner = ThisProgramId =>
               /\ accounts[k].data # ZeroBuffer
               /\ Stored(accounts, k).ok
               /\ [Stored(accounts, k).value EXCEPT !.paid = FALSE] \in Invoices
               /\ accounts[k].lamports >= minimum_balance(Len(accounts[k].data))
    /\ (Creating /\ result = Ok) => Stored(accounts, call.pda).value = call.invoice
    /\ (Creating /\ result # Ok) => accounts = pre
    /\ \A k \in Keys :
           IsRecord(pre, k) =>
               [Stored(accounts, k).value EXCEPT !.paid = FALSE]
                   = [Stored(pre, k).value EXCEPT !.paid = FALSE]

\* an account just created, holding the payload
C18_Witness ==
    /\ Creating
    /\ result = Ok
    /\ pre[call.pda].data = <<>>
    /\ accounts[call.pda].owner = ThisProgramId
    /\ accounts[call.pda].data = InvoiceSerialize(call.invoice)
    /\ accounts[call.pda].data # ZeroBuffer

\* ---- payments whose destination is also the payer or the storage ----

\* an invoice may name any address as its payee, the payer's and the
\* storage account's own included
AliasedPayeeKeys == {DestKey, PayerKey} \cup StorageKeys

AliasedInvoices == [id : Ids, amount : Amounts, paid : BOOLEAN,
                    destination : {Pubkey(k) : k \in AliasedPayeeKeys}]

\* creations by the admin, at the derived address or at a signing keypair
AliasedCreateCalls ==
    {[NoCall EXCEPT !.op = "CreateInvoice", !.first = AdminKey, !.is_signer = sg,
                    !.pda = p, !.pda_is_signer = CanSign(p),
                    !.system_program = SystemProgramId,
                    !.sysvar_rent_program = RentSysvarId, !.naccounts = 4,
                    !.invoice = inv,
                    !.instruction_data = InstructionDataSerialize("CreateInvoice", inv)] :
        sg \in BOOLEAN, p \in StorageKeys, inv \in AliasedInvoices}

AliasedPayCalls ==
    {[NoCall EXCEPT !.op = "PayInvoice", !.first = s, !.is_signer = sg, !.pda = p,
                    !.destination = d, !.system_program = sp, !.naccounts = 4,
                    !.instruction_data = InstructionDataSerialize("PayInvoice", NoInvoice)] :
        s \in SenderKeys, sg \in BOOLEAN, p \in StorageKeys,
        d \in AliasedPayeeKeys, sp \in {SystemProgramId, FakeProgramId}}

\* a payment to oneself can be repeated without end; the count of
\* successful payments per invoice is followed up to this many
MaxPayments == 2

PayInvoiceAliased ==
    \E c \in AliasedPayCalls :
        /\ call = NoCall
        /\ payments[c.pda] < MaxPayments
        /\ pre' = accounts
        /\ call' = c
        /\ result' = Invoke(c).result
        /\ events' = Invoke(c).events
        /\ accounts' = Invoke(c).accts
        /\ payments' = IF Invoke(c).result = Ok
                       THEN [payments EXCEPT ![c.pda] = @ + 1]
                       ELSE payments

CreateInvoiceAliased ==
    \E c \in AliasedCreateCalls :
        /\ call = NoCall
        /\ pre' = accounts
        /\ call' = c
        /\ result' = Invoke(c).result
        /\ events' = Invoke(c).events
        /\ accounts' = Invoke(c).accts
        /\ UNCHANGED payments

NextAliased == PayInvoiceAliased \/ CreateInvoiceAliased \/ Return

SpecAliased == Init /\ [][NextAliased]_vars

RECURSIVE SumOver(_, _)
SumOver(f, S) ==
    IF S = {} THEN 0
    ELSE LET k == CHOOSE x \in S : TRUE IN f[k] + SumOver(f, S \ {k})

\* what `d` was sent by the successful payments of the invoice stored at k
ReceivedThrough(k, d) ==
    IF payments[k] > 0 /\ Stored(accounts, k).value.destination = Pubkey(d)
    THEN payments[k] * Stored(accounts, k).value.amount
    ELSE 0

\* everything DestKey holds came through invoices, amount by amount
TotalReceived ==
    accounts[DestKey].lamports
        = SumOver([k \in Keys |-> ReceivedThrough(k, DestKey)], Keys)

\* the statement without the proviso: on success the payer is down by the
\* amount, the destination up by the amount, the storage balance unchanged
C19_ConservationAnyDestination ==
    /\ (Paying /\ result = Ok) =>
           LET amount == Stored(pre, call.pda).value.amount IN
           /\ Delta(call.first) = - amount
           /\ Delta(call.destination) = amount
           /\ Delta(call.pda) = 0
    /\ (Paying /\ result # Ok) => \A k \in Keys : Delta(k) = 0
    /\ TotalReceived

\* C19 PayInvoice conserves value, provided the destination is neither the
\* payer nor the invoice's storage account: on success the payer is down by
\* exactly invoice.amount, the destination up by exactly invoice.amount and
\* the storage balance unchanged; on failure no balance changes; a
\* destination's total received through an invoice is invoice.amount times
\* the successful payments of it.
C19_Conservation ==
    /\ (Paying /\ result = Ok /\ call.destination \notin {call.first, call.pda}) =>
           LET amount == Stored(pre, call.pda).value.amount IN
           /\ Delta(call.first) = - amount
           /\ Delta(call.destination) = amount
           /\ Delta(call.pda) = 0
           /\ Moved(call.first, call.destination, amount)
    /\ (Paying /\ result = Ok) => \A k \in Keys \ {call.first, call.destination} : Delta(k) = 0
    /\ (Paying /\ result # Ok) => \A k \in Keys : Delta(k) = 0
    /\ TotalReceived

\* the second successful payment of one invoice to a third party
C19_Witness ==
    /\ Paying
    /\ result = Ok
    /\ call.destination = DestKey
    /\ call.destination \notin {call.first, call.pda}
    /\ payments[call.pda] = 2
    /\ Delta(call.first) = - Stored(pre, call.pda).value.amount
    /\ accounts[DestKey].lamports = 2 * Stored(pre, call.pda).value.amount

====
